---- MODULE Spec2Model ----
(***************************************************************************)
(* TopoART (src/topological/TopoART.py): the topology-learning wrapper     *)
(* around a base ART module.  The model follows the Python statement by    *)
(* statement.  numpy arrays are modelled with their number of dimensions,  *)
(* because the code's behaviour depends on it:                             *)
(*                                                                         *)
(*   np.zeros([], dtype=int) has shape (), i.e. it is a 0-dimensional      *)
(*   array holding the single element 0.  It is not an empty vector        *)
(*   (that would be np.zeros([0]) or np.zeros(0)).  On a 0-dimensional     *)
(*   array  sum(a) and zip(.., a)  raise TypeError ("iteration over a 0-d  *)
(*   array"),  a[r, c]  raises IndexError ("too many indices") and         *)
(*   np.pad(a, ((0, 1), (0, 1)))  raises ValueError (a 2 x 2 pad width     *)
(*   does not broadcast to 0 axes).                                        *)
(*                                                                         *)
(* An exception leaves the call; the model records it in err and stops at  *)
(* pc = "error" (the state of the wrapper after a failure is not reused).  *)
(***************************************************************************)
EXTENDS Integers, Sequences, FiniteSets, TLC

\* ------------------------------------------------------------------ bounds
MaxBase == 2          \* categories the base module may already hold when wrapped
MaxSamples == 2       \* length of a dataset
MaxSampleVal == 2     \* distinct sample values
MaxWeightVal == 2     \* distinct weight values the base module produces
MaxT == 2             \* activation levels: category_choice returns 0..MaxT
MaxTau == 2           \* tau is drawn from 1..MaxTau, phi from 1..MaxTau+1
MaxRate == 2          \* beta and beta_lower are drawn from 1..MaxRate
MaxIter == 2          \* max_iter is drawn from 1..MaxIter
RecursionLimit == 3   \* stands for the interpreter's recursion limit (1000 frames)
MaxCount == 2         \* counters of InitArrays are drawn from 1..MaxCount

Samples == 1..MaxSampleVal
Weights == 1..MaxWeightVal

\* Sequences over S of length 0..n.
SeqsUpTo(S, n) == UNION {[1..k -> S] : k \in 0..n}

\* ------------------------------------------------------------ numpy arrays
\* An array is [nd |-> number of dimensions, v |-> contents].  nd = 0: v is a
\* one-element sequence holding the scalar (for the 2-d adjacency: one row of
\* one element).  nd = -1: the attribute has not been assigned yet.
Unassigned == [nd |-> -1, v |-> <<>>]
Zeros0d == [nd |-> 0, v |-> <<0>>]             \* np.zeros([], dtype=int)
False0d == [nd |-> 0, v |-> <<FALSE>>]         \* np.zeros([], dtype=bool)
ZerosAdj0d == [nd |-> 0, v |-> << <<0>> >>]    \* np.zeros([], dtype=int), adjacency
Vec(s) == [nd |-> 1, v |-> s]
Mat(rows) == [nd |-> 2, v |-> rows]

RECURSIVE SeqSum(_)
SeqSum(s) == IF s = <<>> THEN 0 ELSE Head(s) + SeqSum(Tail(s))

\* The largest element of a non-empty sequence of integers.
SeqMax(s) == CHOOSE m \in {s[k] : k \in 1..Len(s)} : \A k \in 1..Len(s) : s[k] <= m

\* The last (highest) index holding the maximum, 0-based.
ArgMaxLast(s) == (CHOOSE k \in 1..Len(s) :
                     /\ s[k] = SeqMax(s)
                     /\ \A j \in (k + 1)..Len(s) : s[j] < s[k]) - 1

\* np.argmax: the first (lowest) index holding the maximum, 0-based.
ArgMax(s) == (CHOOSE k \in 1..Len(s) :
                 /\ s[k] = SeqMax(s)
                 /\ \A j \in 1..(k - 1) : s[j] < s[k]) - 1

\* The subsequence of s at the (1-based, increasing) positions idx.
Pick(s, idx) == [k \in 1..Len(idx) |-> s[idx[k]]]

\* The positions k of 1..n with P[k], in increasing order.
RECURSIVE TruePositions(_, _)
TruePositions(b, n) ==
    IF n = 0 THEN <<>>
    ELSE IF b[n] THEN Append(TruePositions(b, n - 1), n)
         ELSE TruePositions(b, n - 1)

Min(a, b) == IF a <= b THEN a ELSE b

\* ------------------------------------------------------------------- state
VARIABLES
    pc,              \* where control is: "new", "idle", "step_prune", "prune",
                     \* "step_fit", "search", "error"
    caller,          \* who called the running operation: "fit" or "user"
    err,             \* the exception that ended the run ("" while none)
    params,          \* self.params, once constructed
    W,               \* base_module.W, read and written through the W property
    adjacency,       \* self.adjacency
    _counter,        \* self._counter
    _permanent_mask, \* self._permanent_mask
    labels_,         \* self.labels_ ([set |-> FALSE] until fit assigns it)
    X,               \* the dataset of the running fit / prune call
    max_iter,        \* fit's max_iter
    epoch,           \* fit's outer loop counter, 1..max_iter
    i,               \* fit's inner loop index (0-based)
    x,               \* the sample step_fit is working on
    has_reset,       \* whether a match_reset_func was passed
    T,               \* step_fit's activation vector
    resonant_c,      \* step_fit's resonant_c
    iters,           \* iterations of step_fit's while loop so far
    ret,             \* what the last completed step_fit returned (-1: nothing yet)
    resonances,      \* the categories that resonated in this step_fit call, in order
    updates,         \* the calls of base_module.update in this step_fit call
    examined,        \* the candidates of this step_fit call, in the order the
                     \* loop took them: category, its activation, the outcome
    acts,            \* the activations category_choice returned in the last
                     \* prune pass, per re-assigned sample
    fitted,          \* what the last fit that returned left: its dataset, the
                     \* labels and the adjacency ([set |-> FALSE] before any)
    pre,             \* the wrapper's attributes when the running operation began
    last             \* the operation that ended last, and how ("none" once
                     \* the next call has begun)

vars == <<pc, caller, err, params, W, adjacency, _counter, _permanent_mask,
          labels_, X, max_iter, epoch, i, x, has_reset, T, resonant_c, iters,
          ret, resonances, updates, examined, acts, fitted, pre, last>>

wrapper == <<W, adjacency, _counter, _permanent_mask>>
search == <<x, has_reset, T, resonant_c, iters, resonances, updates, examined>>
fitloop == <<X, max_iter, epoch, i>>

NoLabels == [set |-> FALSE, v |-> <<>>]
NoOp == [op |-> "none", ok |-> TRUE, pruned |-> FALSE]
NoFit == [set |-> FALSE, X |-> <<>>, labels |-> <<>>, adjacency |-> Unassigned]
Datasets == SeqsUpTo(Samples, MaxSamples)
Snapshot ==
    [W |-> W, adjacency |-> adjacency, counter |-> _counter,
     mask |-> _permanent_mask, labels |-> labels_]

\* The inputs of the constructor: the base module's params with or without
\* "beta", betta_lower, tau, phi, and the categories the base module holds.
ParamSets ==
    [has_beta : BOOLEAN, beta : 1..MaxRate, beta_lower : 1..MaxRate,
     tau : 1..MaxTau, phi : 1..(MaxTau + 1)]

Init ==
    /\ pc = "new"
    /\ caller = "user"
    /\ err = ""
    /\ params \in ParamSets
    /\ W \in SeqsUpTo(Weights, MaxBase)
    /\ adjacency = Unassigned
    /\ _counter = Unassigned
    /\ _permanent_mask = Unassigned
    /\ labels_ = NoLabels
    /\ X = <<>>
    /\ max_iter = 1
    /\ epoch = 1
    /\ i = 0
    /\ x = 1
    /\ has_reset = FALSE
    /\ T = <<>>
    /\ resonant_c = -1
    /\ iters = 0
    /\ ret = -1
    /\ resonances = <<>>
    /\ updates = <<>>
    /\ examined = <<>>
    /\ acts = <<>>
    /\ fitted = NoFit
    /\ pre = Snapshot
    /\ last = NoOp

\* --------------------------------------------------------------- __init__
\* validate_params with the assertion of line 40 (phi <= tau) left out.
validate_params_without_phi(p) ==
    /\ p.has_beta
    /\ p.beta >= p.beta_lower

\* validate_params: the six assert statements.
validate_params(p) ==
    /\ p.has_beta
    /\ p.beta >= p.beta_lower
    /\ p.phi <= p.tau

\* BaseART.__init__(params): validates the parameters and keeps them.
BaseART_init(p) == validate_params(p)

\* An exception e leaves operation op (pruned: a prune pass had begun).
Fail(e, op, pruned) ==
    /\ pc' = "error"
    /\ err' = e
    /\ last' = [op |-> op, ok |-> FALSE, pruned |-> pruned]

\* TopoART.__init__
Construct ==
    /\ pc = "new"
    /\ IF BaseART_init(params)
       THEN /\ adjacency' = ZerosAdj0d
            /\ _counter' = Zeros0d
            /\ _permanent_mask' = False0d
            /\ pc' = "idle"
            /\ last' = [op |-> "init", ok |-> TRUE, pruned |-> FALSE]
            /\ UNCHANGED err
       ELSE /\ Fail("AssertionError", "init", FALSE)
            /\ UNCHANGED <<adjacency, _counter, _permanent_mask>>
    /\ UNCHANGED <<caller, params, W, labels_, ret, pre, acts, fitted>>
    /\ UNCHANGED search
    /\ UNCHANGED fitloop

\* ------------------------------------------------------------- new_weight
\* np.pad(self.adjacency, ((0, 1), (0, 1)), "constant") on a 2-d array: one
\* more column of zeros in every row, and one more row of zeros.
PadAdj(a) ==
    LET n == Len(a.v)
    IN  Mat([r \in 1..(n + 1) |->
              [c \in 1..(n + 1) |-> IF r <= n /\ c <= n THEN a.v[r][c] ELSE 0]])

\* np.pad(a, (1, 0), ...): the new element put before the others.
PadVecFront(a, c) == IF a.nd = 1 THEN Vec(<<c>> \o a.v) ELSE a

\* np.pad(a, (0, 1), "constant", constant_values=(c,)) : a 1-d array gets one
\* more element c; a 0-d array has no axis to pad and is returned as it is.
PadVec(a, c) == IF a.nd = 1 THEN Vec(Append(a.v, c)) ELSE a

\* TopoART.new_weight, lines 138-141: pad the three arrays, then call
\* self.new_weight again.  The call never returns a weight: either np.pad
\* raises on the adjacency (ValueError, nothing padded yet in that frame), or
\* the chain of calls pads once per frame until the interpreter's recursion
\* limit ends it (RecursionError).  depth: frames entered so far.
RECURSIVE new_weight(_, _, _, _)
new_weight(a, c, m, depth) ==
    IF depth >= RecursionLimit
    THEN [err |-> "RecursionError", w |-> 0, adjacency |-> a, counter |-> c, mask |-> m]
    ELSE IF a.nd # 2
    THEN [err |-> "ValueError", w |-> 0, adjacency |-> a, counter |-> c, mask |-> m]
    ELSE new_weight(PadAdj(a), PadVec(c, 1), PadVec(m, FALSE), depth + 1)

\* ----------------------------------------------------------------- update
\* TopoART.update, lines 121-122: with a first resonant category recorded in
\* the cache, self.adjacency[resonant_c, current_c] += 1.  Indexing a 0-d
\* array with two indices, or past the end of an axis, raises IndexError.
update(a, r, c) ==
    IF r >= 0
    THEN IF a.nd = 2 /\ r < Len(a.v) /\ c < Len(a.v)
         THEN [err |-> "",
               adjacency |-> Mat([a.v EXCEPT ![r + 1][c + 1] = @ + 1])]
         ELSE [err |-> "IndexError", adjacency |-> a]
    ELSE [err |-> "", adjacency |-> a]

\* ------------------------------------------------------------------ prune
\* Line 145: self._permanent_mask += (self._counter >= phi), in place, with
\* numpy's broadcasting: the result must have the mask's own shape.
MaskOr(m, c, phi) ==
    LET ge(k) == c.v[k] >= phi
    IN  IF m.nd = 0
        THEN IF c.nd = 0
             THEN [err |-> "", mask |-> [nd |-> 0, v |-> <<m.v[1] \/ ge(1)>>]]
             ELSE [err |-> "ValueError", mask |-> m]
        ELSE IF c.nd = 0 \/ Len(c.v) = 1
             THEN [err |-> "", mask |-> Vec([k \in 1..Len(m.v) |-> m.v[k] \/ ge(1)])]
             ELSE IF Len(c.v) = Len(m.v)
             THEN [err |-> "", mask |-> Vec([k \in 1..Len(m.v) |-> m.v[k] \/ ge(k)])]
             ELSE [err |-> "ValueError", mask |-> m]

\* Lines 150-154: label_map, old label -> position among perm_labels, for the
\* labels found in self.labels_ (perm: 1-based positions; labels are 0-based).
LabelMapped(perm, l) == \E k \in 1..Len(perm) : perm[k] = l + 1
LabelMap(perm, l) == (CHOOSE k \in 1..Len(perm) : perm[k] = l + 1) - 1

\* Lines 156-164, samples k..Len(Xv): a label found in label_map is rewritten;
\* any other sample is given the category of highest activation among
\* self.W (act[k]: the activations category_choice returns for sample k) and
\* that category's counter is incremented.
RECURSIVE Reassign(_, _, _, _, _, _, _)
Reassign(k, n, perm, Wv, act, lab, cnt) ==
    IF k > n THEN [err |-> "", labels |-> lab, counter |-> cnt]
    ELSE IF k > Len(lab) THEN [err |-> "IndexError", labels |-> lab, counter |-> cnt]
    ELSE IF LabelMapped(perm, lab[k])
    THEN Reassign(k + 1, n, perm, Wv, act,
                  [lab EXCEPT ![k] = LabelMap(perm, lab[k])], cnt)
    ELSE IF Wv = <<>>
    THEN [err |-> "ValueError", labels |-> lab, counter |-> cnt]
    ELSE LET new_label == ArgMax([c \in 1..Len(Wv) |-> act[k][c]])
         IN  Reassign(k + 1, n, perm, Wv, act,
                      [lab EXCEPT ![k] = new_label],
                      [cnt EXCEPT ![new_label + 1] = @ + 1])

\* TopoART.prune(X).  The result holds the exception ("" if none) and the
\* four attributes prune assigns; self.adjacency is not touched by prune, and
\* self._permanent_mask is assigned on line 145 only.
prune(Xv, act, Wv, cnt, msk, lab, phi) ==
    LET same(e, m) == [err |-> e, W |-> Wv, counter |-> cnt, mask |-> m, labels |-> lab]
        mo == MaskOr(msk, cnt, phi)
    IN  IF mo.err # "" THEN same(mo.err, msk)
        \* lines 146-147: np.where and zip over a 0-d mask raise
        ELSE IF mo.mask.nd = 0 THEN same("TypeError", mo.mask)
        ELSE
        LET m == mo.mask.v
            perm_labels == TruePositions(m, Len(m))
            nz == Min(Len(Wv), Len(m))
            W2 == Pick(Wv, TruePositions(m, nz))
        IN  \* line 148: self._counter[perm_labels]
            IF cnt.nd # 1 \/ \E k \in 1..Len(perm_labels) : perm_labels[k] > Len(cnt.v)
            THEN [err |-> "IndexError", W |-> W2, counter |-> cnt,
                  mask |-> mo.mask, labels |-> lab]
            ELSE IF ~lab.set
            THEN [err |-> "AttributeError", W |-> W2,
                  counter |-> Vec(Pick(cnt.v, perm_labels)),
                  mask |-> mo.mask, labels |-> lab]
            ELSE
            LET r == Reassign(1, Len(Xv), perm_labels, W2, act, lab.v,
                              Pick(cnt.v, perm_labels))
            IN  [err |-> r.err, W |-> W2, counter |-> Vec(r.counter),
                 mask |-> mo.mask, labels |-> [set |-> TRUE, v |-> r.labels]]

\* The samples of Xv for which prune calls category_choice (line 160): those
\* whose label is not in label_map.
Reassigned(Xv) ==
    LET mo == MaskOr(_permanent_mask, _counter, params.phi)
    IN  IF mo.err # "" \/ mo.mask.nd # 1 \/ ~labels_.set
        THEN {}
        ELSE {k \in 1..Min(Len(Xv), Len(labels_.v)) :
                 ~LabelMapped(TruePositions(mo.mask.v, Len(mo.mask.v)), labels_.v[k])}

\* The activations category_choice may return inside prune: one vector for
\* each sample it is called for.
Activations(Xv) == [Reassigned(Xv) -> [1..MaxBase -> 0..MaxT]]

\* The datasets a caller passes to step_prune or prune: the dataset the
\* labels belong to, once fit has made labels; any dataset before.
CallDatasets == IF labels_.set THEN {X} ELSE Datasets

\* Where control goes when step_prune returns: fit's line 255, or the caller.
AfterStepPrune == IF caller = "fit" THEN "step_fit" ELSE "idle"

\* A prune pass (the call of prune) inside operation op, which then goes on
\* at pc value next.
PrunePass(Xv, act, op, next) ==
    LET r == prune(Xv, act, W, _counter, _permanent_mask, labels_, params.phi)
    IN  /\ W' = r.W
        /\ _counter' = r.counter
        /\ _permanent_mask' = r.mask
        /\ labels_' = r.labels
        /\ acts' = act
        /\ IF r.err # ""
           THEN Fail(r.err, op, TRUE)
           ELSE /\ pc' = next
                /\ last' = [op |-> op, ok |-> TRUE, pruned |-> TRUE]
                /\ UNCHANGED err

\* TopoART.step_prune, lines 167-169.  The built-in sum() iterates over
\* self._counter, which raises TypeError on a 0-d array.
step_prune ==
    /\ pc = "step_prune"
    /\ pre' = Snapshot
    /\ IF _counter.nd # 1
       THEN /\ Fail("TypeError", "step_prune", FALSE)
            /\ UNCHANGED <<W, _counter, _permanent_mask, labels_, acts>>
       ELSE LET sum_counter == SeqSum(_counter.v)
            IN  IF sum_counter > 0 /\ sum_counter % params.tau = 0
                THEN \E act \in Activations(X) :
                         PrunePass(X, act, "step_prune", AfterStepPrune)
                ELSE /\ pc' = AfterStepPrune
                     /\ last' = [op |-> "step_prune", ok |-> TRUE, pruned |-> FALSE]
                     /\ UNCHANGED <<err, W, _counter, _permanent_mask, labels_, acts>>
    /\ UNCHANGED <<caller, params, adjacency, ret, fitted>>
    /\ UNCHANGED search
    /\ UNCHANGED fitloop

\* A caller invokes step_prune(X) itself.
call_step_prune ==
    /\ pc = "idle"
    /\ \E Xv \in CallDatasets : X' = Xv
    /\ pc' = "step_prune"
    /\ caller' = "user"
    /\ last' = NoOp
    /\ UNCHANGED <<err, params, labels_, max_iter, epoch, i, ret, pre, acts, fitted>>
    /\ UNCHANGED wrapper
    /\ UNCHANGED search

\* A caller invokes prune(X) itself.
call_prune ==
    /\ pc = "idle"
    /\ pre' = Snapshot
    /\ caller' = "user"
    /\ \E Xv \in CallDatasets :
          /\ X' = Xv
          /\ \E act \in Activations(Xv) : PrunePass(Xv, act, "prune", "idle")
    /\ UNCHANGED <<params, adjacency, max_iter, epoch, i, ret, fitted>>
    /\ UNCHANGED search

\* ---------------------------------------------------------------- step_fit
\* step_fit returns c: to fit's line 256 (self.labels_[i] = c, then the next
\* sample, the next epoch, or the end of fit), or to the caller.
Return(c) ==
    /\ ret' = c
    /\ last' = [op |-> "step_fit", ok |-> TRUE, pruned |-> FALSE]
    /\ UNCHANGED err
    /\ IF caller = "fit"
       THEN /\ labels_' = [labels_ EXCEPT !.v[i + 1] = c]
            /\ IF i + 1 < Len(X)
               THEN /\ i' = i + 1
                    /\ epoch' = epoch
                    /\ pc' = "step_prune"
               ELSE IF epoch < max_iter
               THEN /\ i' = 0
                    /\ epoch' = epoch + 1
                    /\ pc' = "step_prune"
               ELSE /\ i' = i + 1
                    /\ epoch' = epoch
                    /\ pc' = "idle"
            /\ fitted' = IF pc' = "idle"
                          THEN [set |-> TRUE, X |-> X, labels |-> labels_'.v,
                                adjacency |-> adjacency']
                          ELSE fitted
       ELSE /\ labels_' = labels_
            /\ pc' = "idle"
            /\ UNCHANGED <<i, epoch, fitted>>

\* BaseART.add_weight: append the weight to self.W.
add_weight(Wv, w) == Append(Wv, w)

\* BaseART.set_weight: self.W[c] = w.
set_weight(Wv, c, w) == [Wv EXCEPT ![c + 1] = w]

\* Lines 227-230, and 188-189 of the bootstrap: self.new_weight, then
\* add_weight and the return of the new index.  bootstrap: lines 190-192
\* replace the three arrays by those of a single category.
Create(c_new, bootstrap) ==
    LET r == new_weight(adjacency, _counter, _permanent_mask, 0)
    IN  IF r.err # ""
        THEN /\ Fail(r.err, "step_fit", FALSE)
             /\ adjacency' = r.adjacency
             /\ _counter' = r.counter
             /\ _permanent_mask' = r.mask
             /\ UNCHANGED <<W, labels_, ret, i, epoch, fitted>>
        ELSE /\ W' = add_weight(W, r.w)
             /\ adjacency' = IF bootstrap THEN Mat(<< <<0>> >>) ELSE r.adjacency
             /\ _counter' = IF bootstrap THEN Vec(<<1>>) ELSE r.counter
             /\ _permanent_mask' = IF bootstrap THEN Vec(<<FALSE>>) ELSE r.mask
             /\ Return(c_new)

\* step_fit, lines 185-196: the bootstrap when there is no category, else the
\* activations T of all categories (category_choice: any value 0..MaxT).
step_fit ==
    /\ pc = "step_fit"
    /\ pre' = Snapshot
    /\ x' = IF caller = "fit" THEN X[i + 1] ELSE x
    /\ resonant_c' = -1
    /\ resonances' = <<>>
    /\ updates' = <<>>
    /\ examined' = <<>>
    /\ iters' = 0
    /\ IF Len(W) = 0
       THEN /\ Create(0, TRUE)
            /\ T' = <<>>
       ELSE /\ \E Tv \in [1..Len(W) -> 0..MaxT] : T' = Tv
            /\ pc' = "search"
            /\ UNCHANGED <<err, labels_, ret, i, epoch, last, fitted>>
            /\ UNCHANGED wrapper
    /\ UNCHANGED <<caller, params, X, max_iter, has_reset, acts>>

\* A caller invokes step_fit(x, match_reset_func) itself.
call_step_fit ==
    /\ pc = "idle"
    /\ \E xv \in Samples : x' = xv
    /\ \E hr \in BOOLEAN : has_reset' = hr
    /\ pc' = "step_fit"
    /\ caller' = "user"
    /\ last' = NoOp
    /\ UNCHANGED <<err, params, labels_, ret, pre, T, resonant_c, iters,
                   resonances, updates, examined, acts, fitted>>
    /\ UNCHANGED wrapper
    /\ UNCHANGED fitloop

\* One pass through the while loop of lines 197-224, or, when no entry of T
\* is positive, the code after the loop (lines 226-232).
\*   m:      what match_criterion_bin returns
\*   reset:  what match_reset_func returns, when one was passed
search_step ==
    /\ pc = "search"
    /\ IF \E k \in 1..Len(T) : T[k] > 0
       THEN
         \E m \in BOOLEAN, reset \in (IF has_reset THEN BOOLEAN ELSE {TRUE}) :
           LET c_ == ArgMax(T)
               no_match_reset == (~has_reset) \/ reset
               beta == IF resonant_c < 0 THEN params.beta ELSE params.beta_lower
               u == update(adjacency, resonant_c, c_)
           IN  /\ iters' = iters + 1
               /\ examined' = Append(examined,
                     [c |-> c_, t |-> T[c_ + 1], ok |-> m /\ no_match_reset])
               /\ IF m /\ no_match_reset
                  THEN /\ resonances' = Append(resonances, c_)
                       /\ T' = T
                       /\ UNCHANGED <<_counter, _permanent_mask>>
                       /\ IF u.err # ""
                          THEN /\ Fail(u.err, "step_fit", FALSE)
                               /\ UNCHANGED <<W, adjacency, updates, resonant_c,
                                              labels_, ret, i, epoch, fitted>>
                          ELSE /\ adjacency' = u.adjacency
                               /\ \E new_w \in Weights : W' = set_weight(W, c_, new_w)
                               /\ updates' = Append(updates, [c |-> c_, beta |-> beta])
                               /\ IF resonant_c < 0
                                  THEN /\ resonant_c' = c_
                                       /\ pc' = "search"
                                       /\ UNCHANGED <<err, labels_, ret, i, epoch, last,
                                                      fitted>>
                                  ELSE /\ Return(resonant_c)
                                       /\ UNCHANGED resonant_c
                  ELSE /\ T' = [T EXCEPT ![c_ + 1] = -1]
                       /\ pc' = "search"
                       /\ UNCHANGED <<err, labels_, ret, i, epoch, last, resonant_c,
                                      resonances, updates, fitted>>
                       /\ UNCHANGED wrapper
       ELSE /\ IF resonant_c < 0
               THEN Create(Len(W), FALSE)
               ELSE /\ UNCHANGED wrapper
                    /\ Return(resonant_c)
            /\ UNCHANGED <<T, resonant_c, iters, resonances, updates, examined>>
    /\ UNCHANGED <<caller, params, X, max_iter, x, has_reset, pre, acts>>

\* --------------------------------------------------------------------- fit
\* BaseART.validate_data / check_dimensions accept the dataset.
validate_data(Xv) == TRUE

\* TopoART.fit, lines 247-253: the W property's setter empties base_module.W,
\* labels_ becomes a vector of zeros, and the loops begin.  adjacency,
\* _counter and _permanent_mask are not assigned here.
fit ==
    /\ pc = "idle"
    /\ \E Xv \in Datasets, mi \in 1..MaxIter, hr \in BOOLEAN :
          /\ validate_data(Xv)
          /\ X' = Xv
          /\ max_iter' = mi
          /\ has_reset' = hr
          /\ labels_' = [set |-> TRUE, v |-> [k \in 1..Len(Xv) |-> 0]]
          /\ IF Xv = <<>>
             THEN /\ pc' = "idle"
                  /\ last' = [op |-> "fit", ok |-> TRUE, pruned |-> FALSE]
                  /\ fitted' = [set |-> TRUE, X |-> Xv, labels |-> <<>>,
                                adjacency |-> adjacency]
             ELSE /\ pc' = "step_prune"
                  /\ last' = NoOp
                  /\ UNCHANGED fitted
    /\ W' = <<>>
    /\ caller' = "fit"
    /\ epoch' = 1
    /\ i' = 0
    /\ UNCHANGED <<err, params, adjacency, _counter, _permanent_mask, ret, pre,
                   x, T, resonant_c, iters, resonances, updates, examined, acts>>

Next ==
    \/ Construct
    \/ fit
    \/ call_step_prune
    \/ call_prune
    \/ call_step_fit
    \/ step_prune
    \/ step_fit
    \/ search_step



Spec == Init /\ [][Next]_vars

\* ------------------------------------------------------------ SpecArrays
\* step_prune and prune on a wrapper whose arrays have the shapes that lines
\* 190-192 and 138-140 are written to build: a 1-d counter and mask and a 2-d
\* adjacency with one slot per category, a flag set only where line 145 sets
\* it (counter >= phi), and a label per sample of the dataset.  No call
\* sequence of Spec leads here: there __init__'s 0-d arrays make step_prune,
\* prune and new_weight raise first.  SpecArrays shows what prune computes
\* on the inputs it is written for.
ArraysState ==
    /\ caller = "user"
    /\ err = ""
    /\ params \in {p \in ParamSets : validate_params(p)}
    /\ W \in SeqsUpTo(Weights, MaxBase) \ {<<>>}
    /\ \E c \in [1..Len(W) -> 1..MaxCount], m \in [1..Len(W) -> BOOLEAN] :
          /\ \A k \in 1..Len(W) : m[k] => c[k] >= params.phi
          /\ _counter = Vec(c)
          /\ _permanent_mask = Vec(m)
    /\ adjacency = Mat([r \in 1..Len(W) |-> [c \in 1..Len(W) |-> 0]])
    /\ X \in Datasets
    \* i samples of X have been given their label by step_fit (line 256);
    \* the others still hold the 0 of line 251
    /\ i \in 0..Len(X)
    /\ \E l \in [1..Len(X) -> 0..(Len(W) - 1)] :
          /\ \A k \in 1..Len(X) : k > i => l[k] = 0
          /\ labels_ = [set |-> TRUE, v |-> l]
    /\ max_iter = 1
    /\ epoch = 1
    /\ x = 1
    /\ has_reset = FALSE
    /\ T = <<>>
    /\ resonant_c = -1
    /\ iters = 0
    /\ ret = -1
    /\ resonances = <<>>
    /\ updates = <<>>
    /\ examined = <<>>
    /\ acts = <<>>
    /\ fitted = NoFit
    /\ pre = Snapshot
    /\ last = NoOp

InitArrays ==
    /\ pc = "idle"
    /\ ArraysState

NextArrays ==
    \/ call_step_prune
    \/ call_prune
    \/ step_prune

SpecArrays == InitArrays /\ [][NextArrays]_vars

\* ---------------------------------------------------------- SpecCounters
\* One step_fit call on such a wrapper (a caller has just invoked it, the one
\* sample of X having its label), and the prune passes that follow it.
InitCounters ==
    /\ pc = "step_fit"
    /\ ArraysState
    /\ Len(X) = 1
    /\ i = Len(X)

NextCounters ==
    \/ step_fit
    \/ search_step
    \/ call_prune

SpecCounters == InitCounters /\ [][NextCounters]_vars

\* ================================================================== claims
\* One slot per live category in all four structures.
SameLength ==
    /\ _counter.nd = 1
    /\ _permanent_mask.nd = 1
    /\ adjacency.nd = 2
    /\ Len(_counter.v) = Len(W)
    /\ Len(_permanent_mask.v) = Len(W)
    /\ Len(adjacency.v) = Len(W)
    /\ \A r \in 1..Len(adjacency.v) : Len(adjacency.v[r]) = Len(W)

\* A step of step_fit or of a prune pass that changes the weights, the
\* counters, the mask or the adjacency, and does not raise.
MutationStep ==
    /\ wrapper' # wrapper
    /\ pc' # "error"
    /\ \/ pc \in {"step_fit", "search", "step_prune"}
       \/ last'.op = "prune"

\* C1: after every mutation performed by step_fit (bootstrap, resonance
\* update, category creation) and by a prune pass, the number of category
\* weights, the length of the counter vector, the length of the permanence
\* mask and both dimensions of the adjacency matrix are equal.
C1_EqualLengths == [][MutationStep => SameLength']_vars

\* Every label of the buffer is the index of a live category, one label per
\* sample.
LabelsInRange ==
    /\ labels_.set
    /\ Len(labels_.v) = Len(X)
    /\ \A k \in 1..Len(labels_.v) : labels_.v[k] >= 0 /\ labels_.v[k] < Len(W)

\* C2: fit works through every sample of any dataset, and once the first
\* sample has been processed, after every step_prune and every step_fit
\* inside fit, and when fit returns, the label buffer has one entry per
\* sample, each in [0, N).
C2_LabelsInRange ==
    caller = "fit" =>
        /\ pc # "error"
        /\ (pc \in {"step_prune", "step_fit", "idle"}
              /\ (i >= 1 \/ epoch > 1 \/ pc = "idle")) => LabelsInRange

\* s (a snapshot of the wrapper) has one slot per category everywhere.
WellFormed(s) ==
    /\ s.counter.nd = 1
    /\ s.mask.nd = 1
    /\ s.adjacency.nd = 2
    /\ Len(s.counter.v) = Len(s.W)
    /\ Len(s.mask.v) = Len(s.W)
    /\ Len(s.adjacency.v) = Len(s.W)
    /\ \A r \in 1..Len(s.adjacency.v) : Len(s.adjacency.v[r]) = Len(s.W)

\* Category k of snapshot s is permanent, or becomes so in a pass begun at s.
Marked(s, k) == s.mask.v[k] \/ s.counter.v[k] >= params.phi
\* The (1-based) indices of the categories of s that survive a pass begun at s.
Survivors(s) == TruePositions([k \in 1..Len(s.W) |-> Marked(s, k)], Len(s.W))
\* Sample k of the dataset is labelled, in s, with a category that survives.
LabelSurvives(s, k) ==
    \E j \in 1..Len(Survivors(s)) : Survivors(s)[j] = s.labels.v[k] + 1

CounterSum == SeqSum(_counter.v)
PruneDue == CounterSum > 0 /\ CounterSum % params.tau = 0

\* C4: step_prune runs a prune pass if and only if the sum of the counters is
\* positive and divisible by tau; on a wrapper with no categories (sum 0, the
\* very first sample) step_prune completes without a prune pass and without
\* changing any state.
C4_PruneTrigger ==
    [][pc = "step_prune" =>
          /\ last'.pruned <=> PruneDue
          /\ Len(W) = 0 =>
                /\ pc' # "error"
                /\ ~last'.pruned
                /\ UNCHANGED <<W, adjacency, _counter, _permanent_mask, labels_>>]_vars

\* C5: step_fit on a wrapper with no categories completes, returns index 0
\* and leaves exactly one category, with the 1x1 zero adjacency, counter 1
\* and permanence flag false.
C5_Bootstrap ==
    (last.op = "step_fit" /\ Len(pre.W) = 0) =>
        /\ last.ok
        /\ ret = 0
        /\ Len(W) = 1
        /\ adjacency = Mat(<< <<0>> >>)
        /\ _counter = Vec(<<1>>)
        /\ _permanent_mask = Vec(<<FALSE>>)

\* C6: step_fit with N >= 1 categories of which none resonates completes and
\* returns the new index N; the model then has N+1 categories, the new one
\* with counter 1, permanence false and an all-zero adjacency row and column,
\* and the N existing categories keep their weights, counters, flags and
\* adjacency entries.
C6_NewCategory ==
    (last.op = "step_fit" /\ Len(pre.W) >= 1 /\ resonances = <<>>) =>
        LET n == Len(pre.W)
        IN  /\ last.ok
            /\ ret = n
            /\ Len(W) = n + 1
            /\ WellFormed(pre)
            /\ SameLength
            /\ \A k \in 1..n : /\ W[k] = pre.W[k]
                               /\ _counter.v[k] = pre.counter.v[k]
                               /\ _permanent_mask.v[k] = pre.mask.v[k]
                               /\ adjacency.v[k][n + 1] = 0
                               /\ adjacency.v[n + 1][k] = 0
                               /\ \A c \in 1..n : adjacency.v[k][c] = pre.adjacency.v[k][c]
            /\ _counter.v[n + 1] = 1
            /\ _permanent_mask.v[n + 1] = FALSE
            /\ adjacency.v[n + 1][n + 1] = 0

\* The adjacency entries that existed when the call began are as they were.
ExistingAdjacencyKept ==
    /\ adjacency.nd = pre.adjacency.nd
    /\ Len(adjacency.v) >= Len(pre.adjacency.v)
    /\ \A r \in 1..Len(pre.adjacency.v) :
          /\ Len(adjacency.v[r]) >= Len(pre.adjacency.v[r])
          /\ \A c \in 1..Len(pre.adjacency.v[r]) :
                adjacency.v[r][c] = pre.adjacency.v[r][c]

\* C7: a step_fit call with a second resonance changes exactly one adjacency
\* entry, adjacency[first][second], by +1, and changes no counter; a call
\* with fewer than two resonances changes no existing adjacency entry.
C7_SecondResonance ==
    last.op = "step_fit" =>
        IF Len(resonances) = 2
        THEN /\ last.ok
             /\ pre.adjacency.nd = 2
             /\ adjacency = Mat([pre.adjacency.v EXCEPT
                                   ![resonances[1] + 1][resonances[2] + 1] = @ + 1])
             /\ _counter = pre.counter
        ELSE (last.ok /\ Len(pre.W) >= 1) => ExistingAdjacencyKept

\* C8: whenever a category resonates in a step_fit call, the call returns the
\* index of the first category that resonated, with or without a second
\* resonance; the second resonant category is updated and is not returned
\* in its own right.
C8_FirstResonantReturned ==
    (last.op = "step_fit" /\ resonances # <<>>) =>
        /\ last.ok
        /\ ret = resonances[1]
        /\ Len(resonances) = 2 =>
              /\ Len(updates) = 2
              /\ updates[2].c = resonances[2]

\* C9: after a prune pass the live categories are exactly those that were
\* permanent before the pass or had a counter >= phi when it began, in their
\* original order, each with its own weight and its own counter (plus one for
\* every sample the pass re-assigned to it); all others are removed.
C9_PruneSurvivors ==
    last.pruned =>
        /\ last.ok
        /\ WellFormed(pre)
        /\ W = Pick(pre.W, Survivors(pre))
        /\ _counter.nd = 1
        /\ Len(_counter.v) = Len(W)
        /\ \A j \in 1..Len(W) :
              _counter.v[j] = pre.counter.v[Survivors(pre)[j]]
                  + Cardinality({k \in 1..Len(X) :
                        ~LabelSurvives(pre, k) /\ labels_.v[k] = j - 1})

\* C10: for every sample whose category survives a prune pass, the label
\* after the pass is the survivor's new index, so it designates the same
\* weight as before; no counter changes on behalf of such a sample.
C10_LabelRemap ==
    last.pruned =>
        /\ last.ok
        /\ WellFormed(pre)
        /\ pre.labels.set
        /\ labels_.set
        /\ \A k \in 1..Len(X) :
              LabelSurvives(pre, k) =>
                 /\ labels_.v[k] + 1 \in 1..Len(W)
                 /\ Survivors(pre)[labels_.v[k] + 1] = pre.labels.v[k] + 1
                 /\ W[labels_.v[k] + 1] = pre.W[pre.labels.v[k] + 1]
        /\ SeqSum(_counter.v) = SeqSum(Pick(pre.counter.v, Survivors(pre)))
              + Cardinality({k \in 1..Len(X) : ~LabelSurvives(pre, k)})

\* The parameters the constructor must refuse.
BadParams ==
    \/ ~params.has_beta
    \/ params.beta_lower > params.beta
    \/ params.phi > params.tau

\* C14: construction fails with a configuration error, leaving no usable
\* wrapper, whenever the base module's parameters lack beta, or beta_lower >
\* beta, or phi > tau; it succeeds when beta is present, beta_lower <= beta
\* and phi <= tau.
C14_ConstructionValidated ==
    last.op = "init" =>
        IF BadParams
        THEN /\ ~last.ok
             /\ pc = "error"
             /\ err = "AssertionError"
             /\ adjacency = Unassigned
             /\ _counter = Unassigned
             /\ _permanent_mask = Unassigned
        ELSE /\ last.ok
             /\ pc = "idle"
             /\ err = ""

\* A construction refused for phi > tau alone.
C14_Witness ==
    /\ last.op = "init"
    /\ ~last.ok
    /\ params.has_beta
    /\ params.beta_lower <= params.beta
    /\ params.phi > params.tau

\* The candidates of the call that passed the match and were not vetoed.
Resonated == SelectSeq(examined, LAMBDA e : e.ok)

\* C16: within one step_fit call candidates are examined in order of
\* decreasing activation, the lowest index first among equals; a category
\* whose activation is not positive is never examined or updated; a category
\* whose match failed or that was vetoed is not updated and is not examined
\* again in that call.
C16_SearchOrder ==
    /\ \A j \in 1..Len(examined) :
          /\ examined[j].t > 0
          /\ examined[j].c + 1 \in 1..Len(T)
          \* no candidate still eligible should have been taken before j
          /\ \A k \in 1..Len(T) :
                T[k] > 0 => /\ T[k] <= examined[j].t
                            /\ T[k] = examined[j].t => k - 1 >= examined[j].c
          /\ \A k \in (j + 1)..Len(examined) :
                /\ examined[k].t <= examined[j].t
                /\ examined[k].t = examined[j].t => examined[k].c >= examined[j].c
                /\ ~examined[j].ok => examined[k].c # examined[j].c
          /\ ~examined[j].ok => T[examined[j].c + 1] = -1
    /\ Len(updates) <= Len(Resonated)
    /\ \A n \in 1..Len(updates) : updates[n].c = Resonated[n].c

\* Two candidates of equal activation, the lower index examined first and
\* failing its match, the higher one examined after it.
C16_Witness ==
    /\ Len(examined) = 2
    /\ examined[1].t = examined[2].t
    /\ examined[1].c < examined[2].c
    /\ ~examined[1].ok
    /\ examined[2].ok
    /\ Len(updates) = 1

\* C19: in a step_fit call with two resonances the second resonant category
\* is not the first one, so no category is updated twice for a sample and
\* every diagonal entry of the adjacency is 0.
C19_DistinctResonances ==
    /\ Len(resonances) = 2 => resonances[1] # resonances[2]
    /\ \A m \in 1..Len(updates), n \in 1..Len(updates) :
          m # n => updates[m].c # updates[n].c
    /\ adjacency.nd = 2 =>
          \A c \in 1..Len(adjacency.v) : adjacency.v[c][c] = 0

\* C17: in a step_fit call the base module's update is invoked with learning
\* rate beta for the first resonant category and with beta_lower for the
\* second one, and at most twice.
C17_LearningRates ==
    /\ Len(updates) <= 2
    /\ Len(resonances) >= 1 =>
          /\ Len(updates) >= 1
          /\ updates[1] = [c |-> resonances[1], beta |-> params.beta]
    /\ Len(resonances) = 2 =>
          /\ Len(updates) = 2
          /\ updates[2] = [c |-> resonances[2], beta |-> params.beta_lower]

\* C18: every step_fit call terminates: the search loop runs at most N + 2
\* iterations (each makes a category ineligible or records one of at most
\* two resonances), and when nothing resonated the creation of the new
\* category completes.
C18_StepFitTerminates ==
    /\ Len(resonances) <= 2
    /\ iters <= Len(T) + 2
    /\ (last.op = "step_fit" /\ resonances = <<>>) =>
          /\ last.ok
          /\ Len(W) = Len(pre.W) + 1

\* C13: a fit on a wrapper starts from a fresh model: when its first sample
\* is about to be processed there are no categories, no counts, no permanence
\* flags, no adjacency counts and no labels of an earlier fit, and step_prune
\* on that first sample completes without running a prune pass.
C13_FitStartsFresh ==
    (caller = "fit" /\ Len(X) >= 1 /\ epoch = 1 /\ i = 0) =>
        /\ pc = "step_prune" =>
              /\ W = <<>>
              /\ \A k \in 1..Len(labels_.v) : labels_.v[k] = 0
              /\ CounterSum = 0
              /\ \A k \in 1..Len(_permanent_mask.v) : ~_permanent_mask.v[k]
              /\ \A r \in 1..Len(adjacency.v) :
                    \A c \in 1..Len(adjacency.v[r]) : adjacency.v[r][c] = 0
        /\ last.op = "step_prune" => (last.ok /\ ~last.pruned)

\* Sample k has been processed by step_fit and its category is dropped by a
\* pass begun at snapshot s.
DroppedAssigned(s, k) == k <= i /\ ~LabelSurvives(s, k)

StepFitKeepsCounters ==
    pc \in {"step_fit", "search"} =>
        /\ _counter'.nd = _counter.nd
        /\ Len(_counter'.v) >= Len(_counter.v)
        /\ \A k \in 1..Len(_counter'.v) :
              _counter'.v[k] = IF k <= Len(_counter.v) THEN _counter.v[k] ELSE 1

\* A prune pass: the counter of each surviving category, at its new index,
\* is its old value plus 1 for each sample the pass re-assigned to it.
PruneRaisesCounters ==
    (pc = "idle" /\ last'.pruned /\ WellFormed(Snapshot)) =>
        LET sv == Survivors(Snapshot)
        IN  \A j \in 1..Len(sv) :
               /\ j <= Len(_counter'.v)
               /\ _counter'.v[j] >= _counter.v[sv[j]]
               /\ _counter'.v[j] - _counter.v[sv[j]] =
                     Cardinality({k \in 1..Len(labels_.v) :
                         /\ ~LabelSurvives(Snapshot, k)
                         /\ labels_'.v[k] = j - 1})

FitReturns == caller' = "fit" /\ pc' = "idle" /\ (pc # "idle" \/ last'.op = "fit")

\* The fit that returns leaves the labels and the adjacency that the fit
\* before it left, if that one was given the same dataset.
SameAsFitBefore ==
    (fitted.set /\ fitted.X = X') =>
        /\ labels_'.v = fitted.labels
        /\ adjacency' = fitted.adjacency

\* C15: fitting a dataset yields a label sequence and an adjacency, and
\* fitting the same dataset again with the same parameters and matcher yields
\* the same ones.
C15_Deterministic ==
    /\ [](caller = "fit" => pc # "error")
    /\ [][FitReturns => SameAsFitBefore]_vars

====
